---------------------------- MODULE Spec2Model ----------------------------
(***************************************************************************)
(* A model of TechLag (techlag/techlag.py) and of its npm backend          *)
(* (techlag/backends/npm.py).                                              *)
(*                                                                         *)
(* Python strings are sequences of one-character strings, so that          *)
(* str.split, re.match and int() are computed character by character.      *)
(* A call that returns v is the record Return(v); a call that raises the   *)
(* exception e is the record Raise(e).                                     *)
(***************************************************************************)
EXTENDS Integers, Sequences, FiniteSets, TLC

VARIABLES
    version, typed, value,                       \* TechLag.convert_version
    old_version, new_version, release, counts,   \* TechLag.release_type
    versions, used, latest, order, lag,          \* Npm.compute_lag
    constraint, candidates, completed, matched, log,  \* TechLag.semver
    params, backend, npm_log,                    \* Npm.__init__
    kind, manifest, dependencies, row, result    \* Npm.calculate_lags

vars == <<version, typed, value, old_version, new_version, release, counts,
          versions, used, latest, order, lag,
          constraint, candidates, completed, matched, log,
          params, backend, npm_log,
          kind, manifest, dependencies, row, result>>

(***************************************************************************)
(* Bounds of the model.                                                    *)
(***************************************************************************)
\* characters typed after the initial text of a version string
MaxTyped == 3
\* dot-separated components of the versions handed to release_type
MaxGroups == 3
\* rows of the data frame of versions handed to compute_lag
MaxVersions == 3
\* candidate versions handed to semver
MaxCandidates == 2
\* dependencies that a package.json declares
MaxDependencies == 2

(***************************************************************************)
(* Values shared by all operations.                                        *)
(***************************************************************************)
RELEASE_MINOR == "minor"
RELEASE_MAJOR == "major"
RELEASE_PATCH == "patch"

\* Python's None where a string is expected (no string: its one element is
\* no character), and the mark of a call that has not returned yet
None == <<"None">>
Unset == [unset |-> TRUE]
Return(v) == [raised |-> "none", value |-> v]
Raise(e) == [raised |-> e]
Returned(r) == r # Unset /\ r.raised = "none"
Raised(r) == r # Unset /\ r.raised # "none"

Digits == {"0", "1", "2", "3", "4", "5", "6", "7", "8", "9"}

DigitValue(c) ==
    CASE c = "0" -> 0 [] c = "1" -> 1 [] c = "2" -> 2 [] c = "3" -> 3
      [] c = "4" -> 4 [] c = "5" -> 5 [] c = "6" -> 6 [] c = "7" -> 7
      [] c = "8" -> 8 [] c = "9" -> 9

\* str.split(sep): the pieces between the occurrences of sep; a string
\* without sep (the empty string too) is its own single piece.
RECURSIVE split(_, _)
split(s, sep) ==
    IF \A i \in 1..Len(s) : s[i] # sep
    THEN <<s>>
    ELSE LET i == CHOOSE k \in 1..Len(s) :
                      s[k] = sep /\ \A j \in 1..(k - 1) : s[j] # sep
         IN  <<SubSeq(s, 1, i - 1)>> \o split(SubSeq(s, i + 1, Len(s)), sep)

\* int(s) of a piece of a string that matched prog: decimal digits, and for
\* the last piece possibly the newline that $ let through, which int()
\* strips as whitespace.  (The empty piece never reaches int() in the code.)
RECURSIVE int(_)
int(s) ==
    IF Len(s) = 0 THEN 0
    ELSE IF s[Len(s)] = "\n" THEN int(SubSeq(s, 1, Len(s) - 1))
    ELSE int(SubSeq(s, 1, Len(s) - 1)) * 10 + DigitValue(s[Len(s)])

\* "^\d+(\.\d+)*$" with \d+ replaced by \d*: a slip that accepts empty pieces
prog_match_star(s) ==
    LET body == IF Len(s) > 0 /\ s[Len(s)] = "\n"
                THEN SubSeq(s, 1, Len(s) - 1) ELSE s
        groups == split(body, ".")
    IN  \A i \in 1..Len(groups) :
            \A j \in 1..Len(groups[i]) : groups[i][j] \in Digits

\* re.compile("^\d+(\.\d+)*$").match(s): one or more non-empty groups of
\* digits separated by dots; $ matches at the end of the string and also
\* just before a newline that ends the string.
prog_match(s) ==
    LET body == IF Len(s) > 0 /\ s[Len(s)] = "\n"
                THEN SubSeq(s, 1, Len(s) - 1) ELSE s
        groups == split(body, ".")
    IN  \A i \in 1..Len(groups) :
            /\ Len(groups[i]) > 0
            /\ \A j \in 1..Len(groups[i]) : groups[i][j] \in Digits

\* the minor component weighted like the patch component
minor_unweighted(groups) ==
    IF Len(groups) >= 2 THEN int(groups[2]) ELSE 0

\* the major component weighted like the minor component
major_thousand(groups) ==
    IF Len(groups) >= 1 THEN int(groups[1]) * 1000 ELSE 0

major_part(groups) ==
    IF Len(groups) >= 1 THEN int(groups[1]) * 1000000 ELSE 0

minor_part(groups) ==
    IF Len(groups) >= 2 THEN int(groups[2]) * 1000 ELSE 0

patch_part(groups) ==
    IF Len(groups) >= 3 THEN int(groups[3]) ELSE 0

convert_version(v) ==
    IF ~prog_match(v)
    THEN Raise("TechLagError")
    ELSE LET groups == split(v, ".")
         IN  Return(major_part(groups) + minor_part(groups) + patch_part(groups))

(***************************************************************************)
(* TechLag.release_type                                                    *)
(***************************************************************************)
\* the value pandas' shift(1) puts in the first row, and Python's str() of it
NaN == <<"NaN">>
str(x) == IF x = NaN THEN <<"n", "a", "n">> ELSE x

\* old_version[1] and new_version[1] exist only in versions of two or more
\* components: indexing a shorter list raises IndexError.
release_type(old, new) ==
    LET old_groups == split(str(old), ".")
        new_groups == split(str(new), ".")
    IN  IF new_groups[1] # old_groups[1]
        THEN Return(RELEASE_MAJOR)
        ELSE IF Len(new_groups) < 2 \/ Len(old_groups) < 2
        THEN Raise("IndexError")
        ELSE IF new_groups[2] # old_groups[2]
        THEN Return(RELEASE_MINOR)
        ELSE Return(RELEASE_PATCH)

(***************************************************************************)
(* Npm.compute_lag                                                         *)
(*                                                                         *)
(* The data frame of versions is a sequence of rows [version, date,        *)
(* package], in the order of the registry's "time" mapping.                *)
(***************************************************************************)
\* x.split('-')[0]
strip_suffix(v) == split(v, "-")[1]

\* versions['version'].apply(lambda x: x.split('-')[0])
strip_versions(rows) ==
    [i \in 1..Len(rows) |-> [rows[i] EXCEPT !.version = strip_suffix(@)]]

\* DataFrame.drop_duplicates(): of rows equal in every column (version, date
\* and package) only the first is kept.
RECURSIVE drop_duplicates(_)
drop_duplicates(rows) ==
    IF rows = <<>> THEN <<>>
    ELSE LET front == drop_duplicates(SubSeq(rows, 1, Len(rows) - 1))
             last == rows[Len(rows)]
         IN  IF \E i \in 1..Len(front) : front[i] = last
             THEN front
             ELSE Append(front, last)

\* versions['version'].apply(TechLag.convert_version)
version_counts(rows) == [i \in 1..Len(rows) |-> convert_version(rows[i].version)]

RowOrders(n) ==
    {p \in [1..n -> 1..n] : \A i, j \in 1..n : p[i] = p[j] => i = j}

\* sort_values('version_count', ascending=True) sorts with quicksort, which is
\* not stable: rows of equal version_count come out in an order that the
\* sort picks.  An order is the sequence of row indices after sorting.
sort_orders(rows) ==
    LET version_count == version_counts(rows)
    IN  {p \in RowOrders(Len(rows)) :
            \A i \in 1..(Len(rows) - 1) :
                version_count[p[i]].value <= version_count[p[i + 1]].value}

sort_values(rows, p) == [i \in 1..Len(rows) |-> rows[p[i]]]

\* versions['version'].shift(1)
version_old(sorted) ==
    [i \in 1..Len(sorted) |-> IF i = 1 THEN NaN ELSE sorted[i - 1].version]

\* versions.apply(lambda d: TechLag.release_type(d['version_old'], d['version']))
release_types(sorted) ==
    LET shifted == version_old(sorted)
    IN  [i \in 1..Len(sorted) |-> release_type(shifted[i], sorted[i].version)]

\* the fast path left out
fast_path_never(used_count, latest_count) == FALSE

\* if used == latest
fast_path(used_count, latest_count) == used_count = latest_count

\* the window taken between the lower and the higher of used and latest
in_window_between(count, used_count, latest_count) ==
    IF used_count <= latest_count
    THEN count > used_count /\ count <= latest_count
    ELSE count > latest_count /\ count <= used_count

\* versions.query('version_count>' + str(used) + ' and version_count <= ' + str(latest))
in_window(count, used_count, latest_count) ==
    count > used_count /\ count <= latest_count

\* groupby('release_type').count() of the rows in the window, and the three
\* keys set to 0 when absent
count_lag(sorted, used_count, latest_count) ==
    LET window == {i \in 1..Len(sorted) :
                      in_window(convert_version(sorted[i].version).value,
                                used_count, latest_count)}
        types == release_types(sorted)
        count(type) == Cardinality({i \in window : types[i].value = type})
    IN  [major |-> count(RELEASE_MAJOR),
         minor |-> count(RELEASE_MINOR),
         patch |-> count(RELEASE_PATCH)]

\* the rows compute_lag sorts: suffixes stripped, duplicate rows dropped
deduplicated(rows) == drop_duplicates(strip_versions(rows))

\* compute_lag(versions, used, latest), with p the order its sort picks
compute_lag(rows, u, l, p) ==
    LET used_count == convert_version(strip_suffix(u))
        latest_count == convert_version(strip_suffix(l))
        kept == deduplicated(rows)
        version_count == version_counts(kept)
        sorted == sort_values(kept, p)
        types == release_types(sorted)
    IN  IF Raised(used_count) \/ Raised(latest_count)
        THEN Raise("TechLagError")
        ELSE IF fast_path(used_count.value, latest_count.value)
        THEN Return([major |-> 0, minor |-> 0, patch |-> 0])
        ELSE IF \E i \in 1..Len(kept) : Raised(version_count[i])
        THEN Raise("TechLagError")
        ELSE IF \E i \in 1..Len(sorted) : Raised(types[i])
        THEN Raise("IndexError")
        ELSE Return(count_lag(sorted, used_count.value, latest_count.value))

\* whether compute_lag gets as far as sorting: used and latest convert, the
\* fast path is not taken, and every version of the data frame converts
reaches_sort(rows, u, l) ==
    LET used_count == convert_version(strip_suffix(u))
        latest_count == convert_version(strip_suffix(l))
        version_count == version_counts(deduplicated(rows))
    IN  /\ Returned(used_count) /\ Returned(latest_count)
        /\ ~fast_path(used_count.value, latest_count.value)
        /\ \A i \in 1..Len(version_count) : Returned(version_count[i])

(***************************************************************************)
(* Inputs.                                                                 *)
(***************************************************************************)
\* the characters a version string is typed from
Alphabet == {"0", "1", ".", "a", "\n"}

\* the version strings of TestTechLag.test_convert_version, and the empty one
TestVersions ==
    { <<>>, <<"1">>, <<"1", ".", "1">>, <<"1", ".", "1", ".", "1">> }

\* the keys of a registry's "time" mapping: releases and a pre-release
RegistryVersions ==
    { <<"1", ".", "0", ".", "0">>,
      <<"1", ".", "1", ".", "0", "-", "r", "c">>,
      <<"1", ".", "1", ".", "0">>,
      <<"1", ".", "1", ".", "1">>,
      <<"2", ".", "0", ".", "0">>,
      <<"1">> }

\* release dates, as days
Dates == {1, 2}

\* the values of used and latest: registry versions of three components, and
\* a text that is no version
UsedVersions == (RegistryVersions \ { <<"1">> }) \cup { <<"x">> }

(***************************************************************************)
(* Values of the variables an operation does not touch                     *)
(***************************************************************************)
IdleConvert == version = <<>> /\ typed = 0 /\ value = Unset
IdleRelease ==
    old_version = <<>> /\ new_version = <<>> /\ release = Unset /\ counts = Unset
IdleLag ==
    versions = <<>> /\ used = <<>> /\ latest = <<>> /\ order = <<>> /\ lag = Unset
IdleSemver ==
    /\ constraint = <<>> /\ candidates = <<>> /\ completed = Unset
    /\ matched = Unset /\ log = <<>>

IdleInit == params = Unset /\ backend = Unset /\ npm_log = <<>>
IdleAnalyze ==
    /\ kind = <<>> /\ manifest = <<>> /\ dependencies = <<>> /\ row = 0
    /\ result = Unset

convertVars == <<version, typed, value>>
releaseVars == <<old_version, new_version, release, counts>>
lagVars == <<versions, used, latest, order, lag>>
semverVars == <<constraint, candidates, completed, matched, log>>
initVars == <<params, backend, npm_log>>
analyzeVars == <<kind, manifest, dependencies, row, result>>

(***************************************************************************)
(* Spec: a registry publishes versions, then Npm.compute_lag is called.    *)
(***************************************************************************)
Init ==
    IdleLag /\ IdleConvert /\ IdleRelease /\ IdleSemver /\ IdleInit /\ IdleAnalyze

\* Npm.get_versions builds one row per key of the "time" mapping, in its
\* order, which is the order of publication.
Publish(v, d) ==
    /\ lag = Unset
    /\ Len(versions) < MaxVersions
    /\ \A i \in 1..Len(versions) : versions[i].version # v
    /\ Len(versions) > 0 => versions[Len(versions)].date <= d
    /\ versions' = Append(versions, [version |-> v, date |-> d, package |-> "pkg"])
    /\ UNCHANGED <<used, latest, order, lag>>
    /\ UNCHANGED <<convertVars, releaseVars, semverVars, initVars, analyzeVars>>

\* compute_lag(list_versions, used, latest) on the versions of a package of
\* the registry, which has one release at least
ComputeLag(u, l) ==
    /\ lag = Unset
    /\ Len(versions) > 0
    /\ used' = u
    /\ latest' = l
    /\ IF reaches_sort(versions, u, l)
       THEN \E p \in sort_orders(deduplicated(versions)) :
                /\ order' = p
                /\ lag' = compute_lag(versions, u, l, p)
       ELSE /\ order' = <<>>
            /\ lag' = compute_lag(versions, u, l, <<>>)
    /\ UNCHANGED versions
    /\ UNCHANGED <<convertVars, releaseVars, semverVars, initVars, analyzeVars>>

Next ==
    \/ \E v \in RegistryVersions, d \in Dates : Publish(v, d)
    \/ \E u \in UsedVersions, l \in UsedVersions : ComputeLag(u, l)

Spec == Init /\ [][Next]_vars

(***************************************************************************)
(* Claims about Npm.compute_lag, checked under Spec.                       *)
(***************************************************************************)
\* ordinal(v): the ordinal of v with its pre-release suffix stripped
ordinal(v) == convert_version(strip_suffix(v))

ZeroLag == [major |-> 0, minor |-> 0, patch |-> 0]

\* the orders the sort of a call on rows may pick; <<>> when the call
\* returns before sorting
CallOrders(rows, u, l) ==
    IF reaches_sort(rows, u, l) THEN sort_orders(deduplicated(rows)) ELSE { <<>> }

RemoveRow(rows, i) == SubSeq(rows, 1, i - 1) \o SubSeq(rows, i + 1, Len(rows))

\* The history of the claims: one version per distinct ordinal (the first of
\* the history that has it), ascending by ordinal.
RECURSIVE OnePerOrdinal(_)
OnePerOrdinal(vs) ==
    IF vs = <<>> THEN <<>>
    ELSE LET front == OnePerOrdinal(SubSeq(vs, 1, Len(vs) - 1))
             last == vs[Len(vs)]
         IN  IF \E i \in 1..Len(front) : ordinal(front[i]) = ordinal(last)
             THEN front
             ELSE Append(front, last)

Ascending(vs) ==
    LET p == CHOOSE q \in RowOrders(Len(vs)) :
                 \A i \in 1..(Len(vs) - 1) :
                     ordinal(vs[q[i]]).value < ordinal(vs[q[i + 1]]).value
    IN  [i \in 1..Len(vs) |-> vs[p[i]]]

ClaimHistory(rows) ==
    Ascending(OnePerOrdinal([i \in 1..Len(rows) |-> strip_suffix(rows[i].version)]))

\* the number of releases of the window whose step from their predecessor
\* in the claims' history is of the given type
ClaimCount(rows, u, l, type) ==
    LET h == ClaimHistory(rows)
    IN  Cardinality({i \in 2..Len(h) :
            /\ ordinal(u).value < ordinal(h[i]).value
            /\ ordinal(h[i]).value <= ordinal(l).value
            /\ release_type(h[i - 1], h[i]) = Return(type)})

ClaimLag(rows, u, l) ==
    [major |-> ClaimCount(rows, u, l, RELEASE_MAJOR),
     minor |-> ClaimCount(rows, u, l, RELEASE_MINOR),
     patch |-> ClaimCount(rows, u, l, RELEASE_PATCH)]

AllConvert(rows) ==
    \A i \in 1..Len(rows) : Returned(ordinal(rows[i].version))

AllClassify(rows) ==
    \A i, j \in 1..Len(rows) :
        Returned(release_type(strip_suffix(rows[i].version),
                              strip_suffix(rows[j].version)))

\* C1: compute_lag returns, for each release type, the number of releases of
\* the deduplicated, ascending history with ordinal(used) < ordinal(r) <=
\* ordinal(latest) whose step from the predecessor is of that type, all three
\* keys present.  (The first release of the history has no predecessor: the
\* formula leaves out the calls whose window holds it.  It also leaves out
\* the histories with a version that release_type cannot classify.)
C1_LagCountsWindowByType ==
    ( /\ lag # Unset
      /\ Returned(ordinal(used)) /\ Returned(ordinal(latest))
      /\ AllConvert(versions) /\ AllClassify(versions)
      /\ ordinal(ClaimHistory(versions)[1]).value <= ordinal(used).value )
    => lag = Return(ClaimLag(versions, used, latest))

\* C2: when ordinal(used) = ordinal(latest), compute_lag returns zero for
\* major, minor and patch, whatever the history holds.
C2_EqualOrdinalsGiveZeroLag ==
    ( /\ lag # Unset
      /\ Returned(ordinal(used)) /\ Returned(ordinal(latest))
      /\ ordinal(used) = ordinal(latest) )
    => lag = Return(ZeroLag)

\* a call with used and latest of different text and equal ordinal, on a
\* history whose rows could not all be classified
C2_Witness ==
    /\ lag = Return(ZeroLag)
    /\ used # latest
    /\ ordinal(used) = ordinal(latest)
    /\ \E i, j \in 1..Len(versions) :
           Raised(release_type(versions[i].version, versions[j].version))

\* C3: for the same history and latest, a used version of greater ordinal
\* gives major, minor and patch counts that are each no greater.  (The sort
\* is a function of the data frame, so both calls see the same order.)
C3_LaterUsedNeverMoreLag ==
    Returned(lag) =>
        \A u2 \in UsedVersions :
            ( Returned(ordinal(u2)) /\ ordinal(u2).value > ordinal(used).value )
            => \A p \in (IF order # <<>> THEN {order}
                         ELSE CallOrders(versions, u2, latest)) :
                   LET later == compute_lag(versions, u2, latest, p)
                   IN  Returned(later) =>
                           /\ later.value.major <= lag.value.major
                           /\ later.value.minor <= lag.value.minor
                           /\ later.value.patch <= lag.value.patch

\* a call that counted two releases or more, and a later used version, below
\* latest, for which fewer are counted
C3_Witness ==
    /\ Returned(lag)
    /\ order # <<>>
    /\ lag.value.major + lag.value.minor + lag.value.patch >= 2
    /\ \E u2 \in UsedVersions :
           /\ Returned(ordinal(u2))
           /\ ordinal(u2).value > ordinal(used).value
           /\ ordinal(u2).value < ordinal(latest).value
           /\ LET later == compute_lag(versions, u2, latest, order)
              IN  /\ Returned(later)
                  /\ later.value # lag.value
                  /\ later.value # ZeroLag

\* C4: an extra entry of the history whose normalized version has the
\* ordinal of another entry leaves the three counts as they are without it.
C4_ExtraEntryOfSameOrdinalChangesNothing ==
    Returned(lag) =>
        \A i \in 1..Len(versions) :
            ( \E j \in 1..Len(versions) :
                  /\ j # i
                  /\ Returned(ordinal(versions[i].version))
                  /\ ordinal(versions[j].version) = ordinal(versions[i].version) )
            => \A p \in CallOrders(RemoveRow(versions, i), used, latest) :
                   compute_lag(RemoveRow(versions, i), used, latest, p) = lag

(***************************************************************************)
(* SpecConvert: a version string is typed, then TechLag.convert_version is *)
(* called on it.                                                           *)
(***************************************************************************)
InitConvert ==
    /\ version \in TestVersions
    /\ typed = 0
    /\ value = Unset
    /\ IdleRelease /\ IdleLag /\ IdleSemver /\ IdleInit /\ IdleAnalyze

\* Python's integers are unbounded, the model checker's have 32 bits: the
\* strings typed have no component of more than four characters, so that
\* the major component times 1,000,000 fits.
Fits(v) == \A i \in 1..Len(split(v, ".")) : Len(split(v, ".")[i]) <= 4

TypeChar(c) ==
    /\ value = Unset
    /\ typed < MaxTyped
    /\ Fits(Append(version, c))
    /\ version' = Append(version, c)
    /\ typed' = typed + 1
    /\ UNCHANGED value
    /\ UNCHANGED <<releaseVars, lagVars, semverVars, initVars, analyzeVars>>

ConvertVersion ==
    /\ value = Unset
    /\ value' = convert_version(version)
    /\ UNCHANGED <<version, typed>>
    /\ UNCHANGED <<releaseVars, lagVars, semverVars, initVars, analyzeVars>>

NextConvert ==
    \/ \E c \in Alphabet : TypeChar(c)
    \/ ConvertVersion

SpecConvert == InitConvert /\ [][NextConvert]_vars

(***************************************************************************)
(* Claims about TechLag.convert_version, checked under SpecConvert.        *)
(***************************************************************************)
RECURSIVE Pow10(_)
Pow10(k) == IF k = 0 THEN 1 ELSE 10 * Pow10(k - 1)

RECURSIVE DigitSum(_, _)
\* the number a numeral writes: the sum of its digits times their powers of ten
DigitSum(s, i) ==
    IF i > Len(s) THEN 0
    ELSE DigitValue(s[i]) * Pow10(Len(s) - i) + DigitSum(s, i + 1)

NumVal(s) == DigitSum(s, 1)

RECURSIVE Join(_)
Join(groups) ==
    IF Len(groups) = 1 THEN groups[1]
    ELSE Join(SubSeq(groups, 1, Len(groups) - 1)) \o <<".">> \o groups[Len(groups)]

\* numerals of one to three digits over the digits of the alphabet
Numerals ==
    UNION { [1..n -> Alphabet \cap Digits] : n \in 1..3 }

\* every version of one to three numerals, with the ordinal the claim gives it
OrdinalTable ==
    { [text |-> Join(<<a>>), ordinal |-> NumVal(a) * 1000000] : a \in Numerals }
    \cup
    { [text |-> Join(<<g[1], g[2]>>),
       ordinal |-> NumVal(g[1]) * 1000000 + NumVal(g[2]) * 1000] :
           g \in Numerals \X Numerals }
    \cup
    { [text |-> Join(<<g[1], g[2], g[3]>>),
       ordinal |-> NumVal(g[1]) * 1000000 + NumVal(g[2]) * 1000 + NumVal(g[3])] :
           g \in Numerals \X Numerals \X Numerals }

\* C5: on a string of one to three dot-separated non-negative integers,
\* convert_version returns major*1,000,000 + minor*1,000 + patch, an absent
\* minor or patch counting as 0.
C5_OrdinalOfOneToThreeIntegers ==
    value # Unset =>
        \A e \in OrdinalTable : e.text = version => value = Return(e.ordinal)

\* "1.10" converted: no patch component, a minor component of two digits
C5_Witness ==
    /\ version = <<"1", ".", "1", "0">>
    /\ value = Return(1010000)

\* digits and dots only, a digit first and last, and no two dots in a row
DottedGroups(s) ==
    /\ Len(s) > 0
    /\ \A i \in 1..Len(s) : s[i] \in Digits \cup {"."}
    /\ s[1] # "." /\ s[Len(s)] # "."
    /\ \A i \in 1..(Len(s) - 1) : ~(s[i] = "." /\ s[i + 1] = ".")

DotCount(s) == Cardinality({i \in 1..Len(s) : s[i] = "."})

\* C6 as stated, on the strings of one line: convert_version returns an
\* integer only for one to three dot-separated groups of digits, and fails
\* with TechLagError on every other string.
C6_OnlyOneToThreeGroupsConvert ==
    ( value # Unset /\ \A i \in 1..Len(version) : version[i] # "\n" ) =>
        IF DottedGroups(version) /\ DotCount(version) <= 2
        THEN Returned(value)
        ELSE value = Raise("TechLagError")

\* s without the newline that ends it, if one does
WithoutLastNewline(s) ==
    IF Len(s) > 0 /\ s[Len(s)] = "\n" THEN SubSeq(s, 1, Len(s) - 1) ELSE s

\* C6 as amended: convert_version returns an integer for one or more
\* dot-separated groups of digits, a newline after them allowed, and fails
\* with TechLagError on every other string; groups after the third do not
\* count.
C6_OnlyDottedGroupsConvert ==
    value # Unset =>
        IF DottedGroups(WithoutLastNewline(version))
        THEN /\ Returned(value)
             /\ \A e \in OrdinalTable :
                    ( /\ Len(e.text) < Len(version)
                      /\ SubSeq(version, 1, Len(e.text) + 1) = e.text \o <<".">>
                      /\ DotCount(e.text) = 2 )
                    => value = Return(e.ordinal)
        ELSE value = Raise("TechLagError")

\* "1.1.1.1" converted to the ordinal of "1.1.1"
C6_Witness ==
    /\ version = <<"1", ".", "1", ".", "1", ".", "1">>
    /\ value = Return(1001001)

(***************************************************************************)
(* SpecRelease: two versions are given; TechLag.release_type classifies    *)
(* the step from the one to the other and TechLag.convert_version gives    *)
(* their ordinals.                                                         *)
(***************************************************************************)
\* the components the versions are made of: below, at and above the weight
\* of the next component
Components == { <<"1">>, <<"9", "9", "9">>, <<"1", "0", "0", "0">> }

\* the versions of one to MaxGroups components
ReleaseVersions ==
    UNION { { Join(g) : g \in [1..n -> Components] } : n \in 1..MaxGroups }

InitRelease ==
    /\ old_version \in ReleaseVersions
    /\ new_version \in ReleaseVersions
    /\ release = Unset
    /\ counts = Unset
    /\ IdleConvert /\ IdleLag /\ IdleSemver /\ IdleInit /\ IdleAnalyze

ReleaseType ==
    /\ release = Unset
    /\ release' = release_type(old_version, new_version)
    /\ UNCHANGED <<old_version, new_version, counts>>
    /\ UNCHANGED <<convertVars, lagVars, semverVars, initVars, analyzeVars>>

ConvertVersions ==
    /\ counts = Unset
    /\ counts' = [old |-> convert_version(old_version),
                  new |-> convert_version(new_version)]
    /\ UNCHANGED <<old_version, new_version, release>>
    /\ UNCHANGED <<convertVars, lagVars, semverVars, initVars, analyzeVars>>

NextRelease ==
    \/ ReleaseType
    \/ ConvertVersions

SpecRelease == InitRelease /\ [][NextRelease]_vars

(***************************************************************************)
(* Claims about ordinals and release types, checked under SpecRelease.     *)
(***************************************************************************)
\* the number at place i of a version, 0 when the version has no such place
Place(v, i) ==
    IF Len(split(v, ".")) >= i THEN NumVal(split(v, ".")[i]) ELSE 0

Below1000(v) ==
    \A i \in 1..Len(split(v, ".")) : NumVal(split(v, ".")[i]) < 1000

\* (major, minor, patch) of a before that of b
Precedes(a, b) ==
    \/ Place(a, 1) < Place(b, 1)
    \/ Place(a, 1) = Place(b, 1) /\ Place(a, 2) < Place(b, 2)
    \/ Place(a, 1) = Place(b, 1) /\ Place(a, 2) = Place(b, 2)
          /\ Place(a, 3) < Place(b, 3)

\* C7: for two valid versions whose components are all below 1000, the
\* ordinal of the one is less than that of the other exactly when its
\* (major, minor, patch) comes first, absent components being 0.
C7_OrdinalOrderIsVersionOrder ==
    ( counts # Unset /\ Below1000(old_version) /\ Below1000(new_version) )
    => /\ Returned(counts.old) /\ Returned(counts.new)
       /\ (counts.old.value < counts.new.value)
              <=> Precedes(old_version, new_version)

\* "1.999" before "999.1": the lesser major decides against the greater minor
C7_Witness ==
    /\ old_version = <<"1", ".", "9", "9", "9">>
    /\ new_version = <<"9", "9", "9", ".", "1">>
    /\ counts # Unset
    /\ counts.old.value < counts.new.value

\* the component at place i of a version, as a string; no string when the
\* version has no such place
Component(v, i) ==
    IF Len(split(v, ".")) >= i THEN split(v, ".")[i] ELSE None

\* C8: release_type returns major when the first components differ as
\* strings, otherwise minor when the second components differ, otherwise
\* patch, also for two identical versions.
C8_ReleaseTypeByFirstDifference ==
    release # Unset =>
        release = Return(IF Component(new_version, 1) # Component(old_version, 1)
                         THEN RELEASE_MAJOR
                         ELSE IF Component(new_version, 2) # Component(old_version, 2)
                         THEN RELEASE_MINOR
                         ELSE RELEASE_PATCH)

\* C14: for every two versions that convert_version accepts (of one, two or
\* three components), release_type returns major, minor or patch and does
\* not raise.
C14_ReleaseTypeTotalOnAcceptedVersions ==
    ( /\ release # Unset
      /\ Returned(convert_version(old_version))
      /\ Returned(convert_version(new_version)) )
    => /\ Returned(release)
       /\ release.value \in {RELEASE_MAJOR, RELEASE_MINOR, RELEASE_PATCH}

(***************************************************************************)
(* TechLag.semver                                                          *)
(***************************************************************************)
Whitespace == {" ", "\n"}

\* str.strip()
RECURSIVE strip(_)
strip(s) ==
    IF Len(s) = 0 THEN s
    ELSE IF s[1] \in Whitespace THEN strip(SubSeq(s, 2, Len(s)))
    ELSE IF s[Len(s)] \in Whitespace THEN strip(SubSeq(s, 1, Len(s) - 1))
    ELSE s

\* what the evaluator writes for the lines it prints
RECURSIVE Written(_)
Written(lines) ==
    IF lines = <<>> THEN <<>>
    ELSE lines[1] \o <<"\n">> \o Written(SubSeq(lines, 2, Len(lines)))

\* the sequences without repetition of elements of the sequence vs
Selections(vs) ==
    UNION { {[i \in 1..n |-> vs[p[i]]] :
                p \in {q \in [1..n -> 1..Len(vs)] :
                          \A i, j \in 1..n : q[i] = q[j] => i = j}} :
            n \in 0..Len(vs) }

\* subprocess.run(['semver', '-r', constraint] + versions, stdout=PIPE): an
\* argument that is no string raises TypeError; otherwise the semver
\* executable (installed, as the tool requires) runs and ends with an exit
\* status and an output.  Its code is not part of the repository: it may
\* end with any status and print any of the versions it was given, a blank
\* line or a message.
subprocess_run(c, vs) ==
    IF c = None
    THEN { [exception |-> "TypeError"] }
    ELSE { [returncode |-> rc, stdout |-> out] :
               rc \in {0, 1, 2},
               out \in {Written(lines) : lines \in Selections(vs)}
                         \cup { <<"\n">>, <<"e", "r", "r", "\n">> } }

\* the branch taken whenever the exit status is 1
no_match_any_output(returncode, output) == returncode = 1

\* completed.returncode == 1 and not output
no_match(returncode, output) == returncode = 1 /\ output = <<>>

\* semver(constraint, versions) once subprocess.run has ended as run: what
\* it returns or raises, and what it logs
semver(c, vs, run) ==
    IF run = [exception |-> "TypeError"]
    THEN [result |-> Raise("TechLagError"), logged |-> <<"ERROR">>]
    ELSE LET output == strip(run.stdout)
         IN  IF run.returncode = 0
             THEN [result |-> Return(split(output, "\n")), logged |-> <<>>]
             ELSE IF no_match(run.returncode, output)
             THEN [result |-> Return(<<>>), logged |-> <<"WARNING">>]
             ELSE [result |-> Raise("TechLagError"), logged |-> <<"ERROR">>]

(***************************************************************************)
(* SpecSemver: versions are collected, then TechLag.semver is called.      *)
(***************************************************************************)
\* the constraints and versions of TestTechLag.test_semserver, and '*'
Constraints == { None, <<">", "1", ".", "2", ".", "3">>, <<"*">> }

CandidateVersions ==
    { <<"1", ".", "2", ".", "0">>, <<"1", ".", "3", ".", "0">>,
      <<"1", ".", "4", ".", "0">> }

InitSemver ==
    /\ constraint \in Constraints
    /\ candidates = <<>>
    /\ completed = Unset
    /\ matched = Unset
    /\ log = <<>>
    /\ IdleConvert /\ IdleRelease /\ IdleLag /\ IdleInit /\ IdleAnalyze

AddCandidate(v) ==
    /\ matched = Unset
    /\ Len(candidates) < MaxCandidates
    /\ \A i \in 1..Len(candidates) : candidates[i] # v
    /\ candidates' = Append(candidates, v)
    /\ UNCHANGED <<constraint, completed, matched, log>>
    /\ UNCHANGED <<convertVars, releaseVars, lagVars, initVars, analyzeVars>>

Semver ==
    /\ matched = Unset
    /\ \E run \in subprocess_run(constraint, candidates) :
           /\ completed' = run
           /\ matched' = semver(constraint, candidates, run).result
           /\ log' = log \o semver(constraint, candidates, run).logged
    /\ UNCHANGED <<constraint, candidates>>
    /\ UNCHANGED <<convertVars, releaseVars, lagVars, initVars, analyzeVars>>

NextSemver ==
    \/ \E v \in CandidateVersions : AddCandidate(v)
    \/ Semver

SpecSemver == InitSemver /\ [][NextSemver]_vars

(***************************************************************************)
(* Claims about TechLag.semver, checked under SpecSemver.                  *)
(***************************************************************************)
Blank(s) == \A i \in 1..Len(s) : s[i] \in Whitespace

\* the evaluator reported that no version satisfies the constraint
ReportedNoMatch ==
    /\ completed # [exception |-> "TypeError"]
    /\ completed.returncode = 1
    /\ Blank(completed.stdout)

\* the evaluator failed in another way
ReportedFailure ==
    /\ completed # [exception |-> "TypeError"]
    /\ completed.returncode # 0
    /\ ~(completed.returncode = 1 /\ Blank(completed.stdout))

\* C9: when the evaluator reports no match (exit status 1, no output) semver
\* returns the empty list and logs a warning; when the constraint is None or
\* the evaluator fails in another way, semver raises TechLagError and
\* returns nothing.
C9_NoMatchIsEmptyFailureRaises ==
    matched # Unset =>
        /\ constraint = None => matched = Raise("TechLagError")
        /\ (constraint # None /\ ReportedNoMatch)
               => matched = Return(<<>>) /\ log = <<"WARNING">>
        /\ (constraint # None /\ ReportedFailure)
               => matched = Raise("TechLagError")

\* no match reported for a constraint and two versions: the empty list
\* returned and a warning logged
C9_Witness ==
    /\ matched = Return(<<>>)
    /\ log = <<"WARNING">>
    /\ Len(candidates) = 2
    /\ constraint = <<">", "1", ".", "2", ".", "3">>
    /\ completed.returncode = 1

(***************************************************************************)
(* Npm.calculate_lags                                                      *)
(*                                                                         *)
(* The data frame of dependencies is a sequence of rows [dependency,       *)
(* constraint, kind] to which calculate_lags adds the columns used_version,*)
(* latest_version, major_lag, minor_lag and patch_lag.                     *)
(***************************************************************************)
DEPENDENCIES_KIND == <<"d", "e", "p", "e", "n", "d", "e", "n", "c", "i", "e", "s">>
DEV_DEPENDENCIES_KIND ==
    <<"d", "e", "v", "D", "e", "p", "e", "n", "d", "e", "n", "c", "i", "e", "s">>
DEPENDENCIES == {DEPENDENCIES_KIND, DEV_DEPENDENCIES_KIND}

\* the packages of the registry
grunt == <<"g", "r", "u", "n", "t">>
jasmine == <<"j", "a", "s", "m", "i", "n", "e">>
lodash == <<"l", "o", "d", "a", "s", "h">>

\* get_versions(package): one row per key of the "time" mapping that the
\* registry serves for the package, 'modified' and 'created' removed
get_versions(package) ==
    LET time == CASE package = grunt ->
                       << <<<<"1", ".", "0", ".", "0">>, 1>>,
                          <<<<"1", ".", "1", ".", "0">>, 2>> >>
                  [] package = jasmine ->
                       << <<<<"1", ".", "1", ".", "0", "-", "r", "c">>, 1>>,
                          <<<<"1", ".", "1", ".", "0">>, 2>> >>
                  [] package = lodash ->
                       << <<<<"1", ".", "1", ".", "1">>, 1>>,
                          <<<<"2", ".", "0", ".", "0">>, 2>> >>
    IN  [i \in 1..Len(time) |->
            [version |-> time[i][1], date |-> time[i][2], package |-> package]]

\* list_versions.version.tolist()
tolist(rows) == [i \in 1..Len(rows) |-> rows[i].version]

\* get_dependencies(package, kind): one row per key of package[kind], with
\* its value and the kind
get_dependencies(package, k) ==
    [i \in 1..Len(package) |->
        [dependency |-> package[i].dependency,
         constraint |-> package[i].constraint,
         kind |-> k]]

\* the five columns that calculate_lags adds before its loop, filled with ''
add_columns(frame) ==
    [i \in 1..Len(frame) |->
        [dependency |-> frame[i].dependency,
         constraint |-> frame[i].constraint,
         kind |-> frame[i].kind,
         used_version |-> <<>>, latest_version |-> <<>>,
         major_lag |-> <<>>, minor_lag |-> <<>>, patch_lag |-> <<>>]]

\* list[-1]
last(list) ==
    IF list = <<>> THEN Raise("IndexError") ELSE Return(list[Len(list)])

\* self.semver(constraint, versions)[-1]: semver raises, or the last line of
\* its list is taken, and an empty list has none
semver_last(c, vs, run) ==
    LET lines == semver(c, vs, run)
    IN  [result |-> IF Raised(lines.result) THEN lines.result
                    ELSE last(lines.result.value),
         logged |-> lines.logged]

\* lines 121-124 of calculate_lags for the dependency d, the evaluator
\* ending as run_latest for '*' and as run_used for the constraint: latest
\* and used, or the exception raised, what semver logged, and the call of
\* semver made last; the second call is made only when the first gave a
\* version
resolve(d, run_latest, run_used) ==
    LET vs == tolist(get_versions(d.dependency))
        latest_version == semver_last(<<"*">>, vs, run_latest)
        used_version == semver_last(d.constraint, vs, run_used)
    IN  IF Raised(latest_version.result)
        THEN [result |-> latest_version.result,
              logged |-> latest_version.logged,
              call |-> [constraint |-> <<"*">>, versions |-> vs,
                        completed |-> run_latest,
                        matched |-> semver(<<"*">>, vs, run_latest).result]]
        ELSE [result |-> IF Raised(used_version.result)
                         THEN used_version.result
                         ELSE Return([used |-> used_version.result.value,
                                      latest |-> latest_version.result.value]),
              logged |-> latest_version.logged \o used_version.logged,
              call |-> [constraint |-> d.constraint, versions |-> vs,
                        completed |-> run_used,
                        matched |-> semver(d.constraint, vs, run_used).result]]

\* lines 126-132: the lag computed, and the five columns of the row set
lag_row(d, used_version, latest_version, p) ==
    LET counted == compute_lag(get_versions(d.dependency),
                               used_version, latest_version, p)
    IN  IF Raised(counted)
        THEN counted
        ELSE Return([d EXCEPT !.latest_version = latest_version,
                              !.used_version = used_version,
                              !.major_lag = counted.value.major,
                              !.minor_lag = counted.value.minor,
                              !.patch_lag = counted.value.patch])

(***************************************************************************)
(* SpecAnalyze: a package.json declares dependencies of one kind; analyze  *)
(* builds the data frame of dependencies and calculate_lags fills it row   *)
(* by row.                                                                 *)
(***************************************************************************)
\* the constraints a package.json gives
ManifestConstraints == Constraints \ {None}

InitAnalyze ==
    /\ kind \in DEPENDENCIES
    /\ manifest = <<>>
    /\ dependencies = <<>>
    /\ row = -1
    /\ result = Unset
    /\ IdleConvert /\ IdleRelease /\ IdleLag /\ IdleSemver /\ IdleInit

\* package.json: the keys of package[kind] are distinct names
Declare(name, c) ==
    /\ row = -1
    /\ Len(manifest) < MaxDependencies
    /\ \A i \in 1..Len(manifest) : manifest[i].dependency # name
    /\ manifest' = Append(manifest, [dependency |-> name, constraint |-> c])
    /\ UNCHANGED <<kind, dependencies, row, result, log>>
    /\ UNCHANGED <<convertVars, releaseVars, lagVars, initVars>>
    /\ UNCHANGED <<constraint, candidates, completed, matched>>

\* analyze, lines 102-103, and calculate_lags up to its loop
GetDependencies ==
    /\ row = -1
    /\ dependencies' = add_columns(get_dependencies(manifest, kind))
    /\ row' = 0
    /\ UNCHANGED <<kind, manifest, result, log>>
    /\ UNCHANGED <<convertVars, releaseVars, lagVars, initVars>>
    /\ UNCHANGED <<constraint, candidates, completed, matched>>

\* one turn of the loop of calculate_lags: the row is filled and the loop
\* goes on, or an exception leaves calculate_lags and analyze
LagRow ==
    /\ result = Unset
    /\ row >= 0 /\ row < Len(dependencies)
    /\ LET d == dependencies[row + 1]
           vs == tolist(get_versions(d.dependency))
       IN  \E run_latest \in subprocess_run(<<"*">>, vs),
              run_used \in subprocess_run(d.constraint, vs) :
               LET resolved == resolve(d, run_latest, run_used)
               IN  /\ log' = log \o resolved.logged
                   /\ constraint' = resolved.call.constraint
                   /\ candidates' = resolved.call.versions
                   /\ completed' = resolved.call.completed
                   /\ matched' = resolved.call.matched
                   /\ IF Raised(resolved.result)
                      THEN /\ result' = resolved.result
                           /\ UNCHANGED <<dependencies, row>>
                      ELSE \E p \in CallOrders(get_versions(d.dependency),
                                               resolved.result.value.used,
                                               resolved.result.value.latest) :
                               LET filled == lag_row(d, resolved.result.value.used,
                                                     resolved.result.value.latest, p)
                               IN  IF Raised(filled)
                                   THEN /\ result' = filled
                                        /\ UNCHANGED <<dependencies, row>>
                                   ELSE /\ dependencies' =
                                              [dependencies EXCEPT ![row + 1] = filled.value]
                                        /\ row' = row + 1
                                        /\ UNCHANGED result
    /\ UNCHANGED <<kind, manifest>>
    /\ UNCHANGED <<convertVars, releaseVars, lagVars, initVars>>

\* return dependencies
ReturnLags ==
    /\ result = Unset
    /\ row = Len(dependencies)
    /\ result' = Return(dependencies)
    /\ UNCHANGED <<kind, manifest, dependencies, row, log>>
    /\ UNCHANGED <<convertVars, releaseVars, lagVars, initVars>>
    /\ UNCHANGED <<constraint, candidates, completed, matched>>

NextAnalyze ==
    \/ \E name \in {grunt, jasmine, lodash}, c \in ManifestConstraints :
           Declare(name, c)
    \/ GetDependencies
    \/ LagRow
    \/ ReturnLags

SpecAnalyze == InitAnalyze /\ [][NextAnalyze]_vars

(***************************************************************************)
(* Claims about Npm.calculate_lags, checked under SpecAnalyze.             *)
(***************************************************************************)
\* the call of semver made last was for the constraint of a dependency, and
\* no version of the history matched it
EmptyUsedResolution ==
    /\ constraint # <<"*">>
    /\ matched = Return(<<>>)

\* C11: when the constraint of one dependency of a batch of two or more
\* matches no version of its history, the analysis does not raise: it goes
\* through every dependency of the batch and returns.
C11_FailureOfOneDependencyIsLocal ==
    ( result # Unset /\ Len(dependencies) >= 2 /\ EmptyUsedResolution ) =>
        /\ Returned(result)
        /\ row = Len(dependencies)

\* the record of the dependency d of the package.json: its name, constraint
\* and kind as declared, a used and a latest version, and the three counts
\* that compute_lag gives for them on the history of d alone, none negative
LagRecord(d, record) ==
    /\ record.dependency = d.dependency
    /\ record.constraint = d.constraint
    /\ record.kind = kind
    /\ record.used_version # <<>> /\ record.latest_version # <<>>
    /\ \E p \in CallOrders(get_versions(d.dependency),
                           record.used_version, record.latest_version) :
           compute_lag(get_versions(d.dependency),
                       record.used_version, record.latest_version, p)
               = Return([major |-> record.major_lag,
                         minor |-> record.minor_lag,
                         patch |-> record.patch_lag])
    /\ record.major_lag >= 0 /\ record.minor_lag >= 0 /\ record.patch_lag >= 0

\* one record per dependency of the package.json, in its order
RecordPerDependency(records) ==
    /\ Len(records) = Len(manifest)
    /\ \A i \in 1..Len(manifest) : LagRecord(manifest[i], records[i])

\* C12: analyze emits one lag record per dependency, in the order of the
\* package.json; each record keeps the name, constraint and kind of its
\* dependency and adds a used version, a latest version and three counts,
\* none negative, that depend on this dependency alone.
C12_OneRecordPerDependencyInOrder ==
    result # Unset =>
        /\ Returned(result)
        /\ RecordPerDependency(result.value)

\* the records of an analysis that returns are as C12 describes them
ReturnedRecordsAsClaimed ==
    Returned(result) => RecordPerDependency(result.value)

(***************************************************************************)
(* Npm.__init__                                                            *)
(***************************************************************************)
\* the truth value Python gives an argument: None and '' are false
truthy(x) == x # None /\ x # <<>>

\* if not dep_kind and not url
no_kind(p) == ~truthy(p.dep_kind) /\ ~truthy(p.url)

\* if package and version and dep_kind: if url
all_given(p) ==
    truthy(p.package) /\ truthy(p.version) /\ truthy(p.dep_kind) /\ truthy(p.url)

\* the url refused only beside both a package and a version
too_many_both(p) == truthy(p.url) /\ truthy(p.package) /\ truthy(p.version)

\* if url: if package or version
too_many(p) == truthy(p.url) /\ (truthy(p.package) \/ truthy(p.version))

\* Npm(package, version, url, dep_kind): the exception raised, or the
\* attributes of the object, and what the logger of the backend logged
Npm_init(p) ==
    IF no_kind(p) \/ all_given(p) \/ too_many(p)
    THEN [result |-> Raise("ParamsError"), logged |-> <<>>]
    ELSE IF p.dep_kind \notin DEPENDENCIES
    THEN [result |-> Return([package |-> p.package, version |-> p.version,
                             url |-> p.url, dep_kind |-> DEPENDENCIES_KIND]),
          logged |-> <<"WARNING">>]
    ELSE [result |-> Return([package |-> p.package, version |-> p.version,
                             url |-> p.url, dep_kind |-> p.dep_kind]),
          logged |-> <<>>]

(***************************************************************************)
(* SpecInit: arguments are given, then Npm is constructed from them.       *)
(***************************************************************************)
\* the arguments of TestNpm.test_init, None (the default) and ''
unknown_dev == <<"u", "n", "k", "n", "o", "w", "n", "_", "d", "e", "v">>
Packages == { None, <<>>, grunt }
PackageVersions == { None, <<"1", ".", "0", ".", "0">> }
Urls == { None, <<>>, <<"h", "t", "t", "p", "s", ":", "/", "/", ".", ".", ".">> }
DepKinds == { None, <<>>, DEPENDENCIES_KIND, DEV_DEPENDENCIES_KIND, unknown_dev }

NoArguments == [package |-> None, version |-> None, url |-> None, dep_kind |-> None]

InitInit ==
    /\ params = NoArguments
    /\ backend = Unset
    /\ npm_log = <<>>
    /\ IdleConvert /\ IdleRelease /\ IdleLag /\ IdleSemver /\ IdleAnalyze

\* a keyword argument of the call
PassPackage(x) ==
    /\ backend = Unset
    /\ params.package = None
    /\ params' = [params EXCEPT !.package = x]
    /\ UNCHANGED <<backend, npm_log>>
    /\ UNCHANGED <<convertVars, releaseVars, lagVars, semverVars, analyzeVars>>

PassVersion(x) ==
    /\ backend = Unset
    /\ params.version = None
    /\ params' = [params EXCEPT !.version = x]
    /\ UNCHANGED <<backend, npm_log>>
    /\ UNCHANGED <<convertVars, releaseVars, lagVars, semverVars, analyzeVars>>

PassUrl(x) ==
    /\ backend = Unset
    /\ params.url = None
    /\ params' = [params EXCEPT !.url = x]
    /\ UNCHANGED <<backend, npm_log>>
    /\ UNCHANGED <<convertVars, releaseVars, lagVars, semverVars, analyzeVars>>

PassDepKind(x) ==
    /\ backend = Unset
    /\ params.dep_kind = None
    /\ params' = [params EXCEPT !.dep_kind = x]
    /\ UNCHANGED <<backend, npm_log>>
    /\ UNCHANGED <<convertVars, releaseVars, lagVars, semverVars, analyzeVars>>

NpmInit ==
    /\ backend = Unset
    /\ backend' = Npm_init(params).result
    /\ npm_log' = npm_log \o Npm_init(params).logged
    /\ UNCHANGED params
    /\ UNCHANGED <<convertVars, releaseVars, lagVars, semverVars, analyzeVars>>

NextInit ==
    \/ \E x \in Packages \ {None} : PassPackage(x)
    \/ \E x \in PackageVersions \ {None} : PassVersion(x)
    \/ \E x \in Urls \ {None} : PassUrl(x)
    \/ \E x \in DepKinds \ {None} : PassDepKind(x)
    \/ NpmInit

SpecInit == InitInit /\ [][NextInit]_vars

(***************************************************************************)
(* Claims about Npm.__init__, checked under SpecInit.                      *)
(***************************************************************************)
\* an argument is given: it is neither None nor the empty string
Given(x) == x # None /\ x # <<>>

\* C13: Npm(...) raises ParamsError when neither a dependency kind nor a url
\* is given, and when a url is given together with a package or a version;
\* otherwise it returns an object whose dep_kind is 'dependencies' or
\* 'devDependencies': the kind given if it is one of the two, and otherwise
\* 'dependencies', with a warning logged.
C13_InitValidatesItsParameters ==
    backend # Unset =>
        IF \/ ~Given(params.dep_kind) /\ ~Given(params.url)
           \/ Given(params.url) /\ (Given(params.package) \/ Given(params.version))
        THEN backend = Raise("ParamsError")
        ELSE /\ Returned(backend)
             /\ backend.value.dep_kind \in DEPENDENCIES
             /\ params.dep_kind \in DEPENDENCIES
                    => backend.value.dep_kind = params.dep_kind
             /\ params.dep_kind \notin DEPENDENCIES
                    => /\ backend.value.dep_kind = DEPENDENCIES_KIND
                       /\ npm_log = <<"WARNING">>

\* Npm(dep_kind="unknown_dev", url="https://..."): constructed with the kind
\* 'dependencies' and a warning
C13_Witness ==
    /\ params = [package |-> None, version |-> None,
                 url |-> <<"h", "t", "t", "p", "s", ":", "/", "/", ".", ".", ".">>,
                 dep_kind |-> unknown_dev]
    /\ Returned(backend)
    /\ backend.value.dep_kind = DEPENDENCIES_KIND
    /\ npm_log = <<"WARNING">>

\* C15: an Npm object that was constructed (no argument being the empty
\* string) has either its url set and its package and version unset, or its
\* package and version set and its url unset.
C15_BackendIsInOneOfTwoModes ==
    ( /\ Returned(backend)
      /\ params.package # <<>> /\ params.url # <<>> /\ params.dep_kind # <<>> )
    => \/ /\ backend.value.url # None
          /\ backend.value.package = None
          /\ backend.value.version = None
       \/ /\ backend.value.package # None
          /\ backend.value.version # None
          /\ backend.value.url = None
=============================================================================
